---- MODULE Spec2Model ----
(***************************************************************************)
(* Model of devious' Webapp target (targets/webapp/webapp.py): the remote  *)
(* lifecycle (deploy, run, stop over one SSH session), the certificate     *)
(* command chain, and the local build stage (copytree, template rendering, *)
(* compose mutation).                                                      *)
(*                                                                         *)
(* Spec      : deploy / run / stop against one remote host.                *)
(* SpecChain : the remote shell executing the joined certificate command.  *)
(* SpecBuild : build(clean) against the local build directory.             *)
(***************************************************************************)
EXTENDS Integers, Sequences, FiniteSets, TLC

VARIABLES
    \* ---- remote lifecycle (Spec) ----
    host,          \* the remote VM: [installed : subset of Tools,
                   \*   nginxRunning, imageBuilt, serviceUp : BOOLEAN]
    call,          \* the lifecycle call in progress or last made
    pc,            \* position inside the call; "idle" between calls
    log,           \* remote operations issued by the current call, with results
    sessions,      \* SSH sessions currently open
    opened,        \* SSH sessions opened by the current call
    outcome,       \* how the last call ended: "none" | "returned" | "raised"
    ncalls,        \* lifecycle calls started so far
    provisionedBy, \* numbers of the deploy calls that got past steps 1-3
    startInstalled,\* host.installed when the current call started
    \* ---- certificate chain on the remote shell (SpecChain) ----
    chainPos,      \* index of the next chained command; 0 before the invocation
    chainRun,      \* the chained commands executed so far, with exit status
    chainDone,     \* the joined invocation has ended
    \* ---- build stage (SpecBuild) ----
    bdirs,         \* directories existing under the build directory ("." is it)
    bfiles,        \* files under the build directory: path -> content
    templates,     \* the template sets: [webapp : path -> body, nginx : path -> body]
    bind_ports,    \* the target's port mapping, in insertion order
    environ,       \* os.environ of the building process
    bpc,           \* position inside build; "idle" between builds
    clean,         \* the argument of the build in progress
    rendered,      \* template files of the current set already rendered
    bresult,       \* how the last build ended: "none" | "ok" | "exit1" | KeyError ...
    berrkey,       \* the key named by the KeyError that ended the last build
    nbuilds,       \* builds started so far
    dirsAtStart,   \* bdirs when the current build started
    filesAtStart,  \* bfiles when the current build started
    history,       \* the operations on the build directory that have ended:
                   \*   [op, clean, result, before, after]
    \* ---- two builds of the target at once (SpecRace)
    racers         \* builder -> [pc, result, rendered, wrote, made]

lifeVars  == <<host, call, pc, log, sessions, opened, outcome, ncalls,
               provisionedBy, startInstalled>>
chainVars == <<chainPos, chainRun, chainDone>>
buildVars == <<bdirs, bfiles, templates, bind_ports, environ, bpc, clean,
               rendered, bresult, berrkey, nbuilds, dirsAtStart, filesAtStart,
               history>>
raceVars  == <<racers>>
vars      == <<lifeVars, chainVars, buildVars, raceVars>>

\* ------------------------------------------------------------------ bounds
MaxCalls  == 2
MaxBuilds == 2

(***************************************************************************)
(*                         REMOTE SESSION                                  *)
(***************************************************************************)
Tools == {"docker", "python", "nginx"}

\* What one session.run can do: the command exits 0, exits non-zero, or the
\* transport raises.
RunResults == {"ok", "fail", "raise"}

\* session.upload returns nothing: it completes or raises.
UploadResults == {"ok", "raise"}

\* The truth value of what session.run returns.
Truthy(res) == res = "ok"

\* `command -v <tool>` exits 0 exactly when the tool is on the host.
ProbeResults(t) == {IF t \in host.installed THEN "ok" ELSE "fail", "raise"}

\* The install command puts the tool on the host when it exits 0.
HostAfterInstall(t, res) ==
    IF res = "ok" THEN [host EXCEPT !.installed = @ \cup {t}] ELSE host

\* The docker wrapper called for each compose step of the lifecycle.
ComposeVerb_build_starts(cmd) ==
    CASE cmd = "compose_build" -> "up"
      [] cmd = "compose_up"    -> "up"
      [] cmd = "compose_down"  -> "stop"

ComposeVerb(cmd) ==
    CASE cmd = "compose_build" -> "build"
      [] cmd = "compose_up"    -> "up"
      [] cmd = "compose_down"  -> "stop"

\* What a compose command that exits 0 has done on the host: build makes
\* the image, up starts the service (building what is missing), stop stops
\* it.  A command that did not exit 0 is taken to have changed nothing.
HostAfterCompose(h, verb, res) ==
    IF res # "ok" THEN h
    ELSE CASE verb = "build" -> [h EXCEPT !.imageBuilt = TRUE]
           [] verb = "up"    -> [h EXCEPT !.imageBuilt = TRUE, !.serviceUp = TRUE]
           [] verb = "stop"  -> [h EXCEPT !.serviceUp = FALSE]

\* `service nginx start` and `service nginx reload`: start leaves the proxy
\* running when it exits 0; reload signals a running proxy and starts none.
HostAfterService(h, verb, res) ==
    IF verb = "start" /\ res = "ok" THEN [h EXCEPT !.nginxRunning = TRUE] ELSE h

Entry(cmd, res) == [cmd |-> cmd, res |-> res]

ProbeCmd(t)   == "probe_" \o t
InstallCmd(t) == "install_" \o t

(***************************************************************************)
(*                      CERTIFICATE COMMAND CHAIN                          *)
(***************************************************************************)
\* linux.chain_commands: the commands joined by the operator, one composite.
chain_commands(cmds, operator) == [cmds |-> cmds, operator |-> operator]

\* The shell's rule for what follows a command that ended with `res`.
ShellContinues(operator, res) ==
    CASE operator = ";"  -> TRUE
      [] operator = "&&" -> res = "ok"
      [] operator = "||" -> res = "fail"

CertCommands ==
    << "apt_get_install", "venv", "pip_upgrade", "pip_install_certbot",
       "ln_certbot", "pkill_nginx", "certbot", "pkill_nginx" >>

\* The contact address and the domain the target was constructed with.
Email      == "admin@example.org"
DomainName == "web.example.org"

\* linux.apt_get_install(packages): the command that installs them.
apt_get_install(packages) == << "apt-get", "install" >> \o packages

certbot_cmd_production(domain_name, email) ==
    << "certbot", "--nginx", "--agree-tos", "--non-interactive",
       "--email", email, "-d", domain_name >>

certbot_cmd(domain_name, email) ==
    << "certbot", "--nginx", "--agree-tos", "--test-cert", "--non-interactive",
       "--email", email, "-d", domain_name >>

\* The argument lists handed to chain_commands, in the order of the list.
CertArgv ==
    << apt_get_install(<< "python3", "python3-venv", "libaugeas0" >>),
       << "python3", "-m", "venv", "/opt/certbot/" >>,
       << "/opt/certbot/bin/pip", "install", "--upgrade", "pip" >>,
       << "/opt/certbot/bin/pip", "install", "certbot", "certbot-nginx" >>,
       << "ln", "-s", "/opt/certbot/bin/certbot", "/usr/bin/certbot" >>,
       << "pkill", "nginx" >>,
       certbot_cmd(DomainName, Email),
       << "pkill", "nginx" >> >>

set_up_ssl_cert_short_circuit == chain_commands(CertCommands, "&&")

set_up_ssl_cert == chain_commands(CertCommands, ";")

\* The commands of `chain` the shell executes when exactly those at the
\* positions in `fails` exit non-zero, from position i on.
RECURSIVE ChainExec(_, _, _)
ChainExec(chain, fails, i) ==
    IF i > Len(chain.cmds) THEN << >>
    ELSE LET res == IF i \in fails THEN "fail" ELSE "ok"
         IN  << [pos |-> i, cmd |-> chain.cmds[i], res |-> res] >> \o
             ( IF ShellContinues(chain.operator, res)
               THEN ChainExec(chain, fails, i + 1)
               ELSE << >> )

\* The exit status of the joined invocation: that of the last command run.
ChainStatus(chain, fails) ==
    LET run == ChainExec(chain, fails, 1)
    IN  IF run = << >> THEN "ok" ELSE run[Len(run)].res

\* What the commands of one run of the chain leave of the proxy process:
\* `pkill nginx` that exits 0 has stopped it, certbot's nginx plugin may
\* have started it (starts), no other command of the chain touches it.
RECURSIVE ProxyAfterChain(_, _, _, _)
ProxyAfterChain(running, run, i, starts) ==
    IF i > Len(run) THEN running
    ELSE ProxyAfterChain(
             CASE run[i].cmd = "pkill_nginx" /\ run[i].res = "ok" -> FALSE
               [] run[i].cmd = "certbot" /\ starts               -> TRUE
               [] OTHER                                          -> running,
             run, i + 1, starts)

\* Every way one run of the certificate chain can end, by whether the proxy
\* ran before it: the status the session reports and the proxy after it,
\* over the commands that fail and over what certbot does to the proxy.
CertOutcomes ==
    [ running \in BOOLEAN |->
        { [ res     |-> ChainStatus(set_up_ssl_cert, fails),
            running |-> ProxyAfterChain(running,
                            ChainExec(set_up_ssl_cert, fails, 1), 1, starts) ] :
            fails \in SUBSET (1 .. Len(CertCommands)), starts \in BOOLEAN } ]

(***************************************************************************)
(*                    LIFECYCLE: deploy, run, stop                         *)
(***************************************************************************)
\* `with ssh.SSHSession(self.domain_name) as session:` entered by call c.
EnterSession(c, first) ==
    /\ pc = "idle"
    /\ ncalls < MaxCalls
    /\ call' = c
    /\ pc' = first
    /\ log' = << >>
    /\ sessions' = sessions + 1
    /\ opened' = 1
    /\ outcome' = "none"
    /\ ncalls' = ncalls + 1
    /\ startInstalled' = host.installed
    /\ UNCHANGED <<host, provisionedBy, chainVars, buildVars, raceVars>>

\* Leaving the with block, by falling off its end ("exit") or by an
\* exception propagating out of it ("unwind"), calls __exit__.
SessionsAfterExit_no_finally(n, path) == IF path = "unwind" THEN n ELSE n - 1

SessionsAfterExit(n, path) == n - 1

\* A statement `session.run(...)` whose value is discarded: only an
\* exception changes what runs next.
AfterRun(res, next) == IF res = "raise" THEN "unwind" ELSE next

\* What follows the prerequisite block of tool t.
AfterPrereq(t) ==
    CASE t = "docker" -> ProbeCmd("python")
      [] t = "python" -> ProbeCmd("nginx")
      [] t = "nginx"  -> "upload"

DeployAfterProbe_swallow(t, res) ==
    IF Truthy(res) THEN InstallCmd(t) ELSE AfterPrereq(t)

\* `if session.run(["command", "-v", t, ...]):` then the install.
DeployAfterProbe(t, res) ==
    IF res = "raise" THEN "unwind"
    ELSE IF Truthy(res) THEN InstallCmd(t) ELSE AfterPrereq(t)

\* What follows the install of tool t inside its if block.
AfterInstall_no_rm(t) == AfterPrereq(t)

\* What follows the install of tool t inside its `if` block: the proxy's
\* block goes on with the two removals of the default site.
AfterInstall(t) == IF t = "nginx" THEN "rm_sites_available" ELSE AfterPrereq(t)

DeploySequel_build_after_cert(cmd) ==
    CASE cmd = "rm_sites_available" -> "rm_sites_enabled"
      [] cmd = "rm_sites_enabled"   -> "upload"
      [] cmd = "upload"             -> "cp_nginx_config"
      [] cmd = "cp_nginx_config"    -> "set_up_ssl_cert"
      [] cmd = "set_up_ssl_cert"    -> "compose_build"
      [] cmd = "compose_build"      -> "nginx_reload"
      [] cmd = "nginx_reload"       -> "exit"

\* The straight-line statements of deploy, each followed by the next.
DeploySequel(cmd) ==
    CASE cmd = "rm_sites_available" -> "rm_sites_enabled"
      [] cmd = "rm_sites_enabled"   -> "upload"
      [] cmd = "upload"             -> "cp_nginx_config"
      [] cmd = "cp_nginx_config"    -> "compose_build"
      [] cmd = "compose_build"      -> "set_up_ssl_cert"
      [] cmd = "set_up_ssl_cert"    -> "nginx_reload"
      [] cmd = "nginx_reload"       -> "exit"

Issue(cmd, res, next) ==
    /\ log' = Append(log, Entry(cmd, res))
    /\ pc' = next
    /\ UNCHANGED <<call, sessions, opened, outcome, ncalls, startInstalled,
                   chainVars, buildVars, raceVars>>

StartDeploy == EnterSession("deploy", ProbeCmd("docker"))

DeployProbe(t) ==
    /\ call = "deploy" /\ pc = ProbeCmd(t)
    /\ \E res \in ProbeResults(t) : Issue(ProbeCmd(t), res, DeployAfterProbe(t, res))
    /\ UNCHANGED <<host, provisionedBy>>

DeployInstall(t) ==
    /\ call = "deploy" /\ pc = InstallCmd(t)
    /\ \E res \in RunResults :
          /\ Issue(InstallCmd(t), res, AfterRun(res, AfterInstall(t)))
          /\ host' = HostAfterInstall(t, res)
    /\ UNCHANGED provisionedBy

DeployRmDefault ==
    /\ call = "deploy" /\ pc \in {"rm_sites_available", "rm_sites_enabled"}
    /\ \E res \in RunResults : Issue(pc, res, AfterRun(res, DeploySequel(pc)))
    /\ UNCHANGED <<host, provisionedBy>>

DeployUpload ==
    /\ call = "deploy" /\ pc = "upload"
    /\ \E res \in UploadResults : Issue(pc, res, AfterRun(res, DeploySequel(pc)))
    /\ provisionedBy' = provisionedBy \cup {ncalls}
    /\ UNCHANGED host

DeployCopyNginxConfig ==
    /\ call = "deploy" /\ pc = "cp_nginx_config"
    /\ \E res \in RunResults : Issue(pc, res, AfterRun(res, DeploySequel(pc)))
    /\ UNCHANGED <<host, provisionedBy>>

DeployComposeBuild ==
    /\ call = "deploy" /\ pc = "compose_build"
    /\ \E res \in RunResults :
          /\ Issue(pc, res, AfterRun(res, DeploySequel(pc)))
          /\ host' = HostAfterCompose(host, ComposeVerb(pc), res)
    /\ UNCHANGED provisionedBy

\* session.run(set_up_ssl_cert(...)): one invocation of the joined command;
\* its status is the chain's, for whichever of its commands fail.
DeployCert ==
    /\ call = "deploy" /\ pc = "set_up_ssl_cert"
    /\ \/ \E out \in CertOutcomes[host.nginxRunning] :
             /\ Issue(pc, out.res, AfterRun(out.res, DeploySequel(pc)))
             /\ host' = [host EXCEPT !.nginxRunning = out.running]
       \/ /\ Issue(pc, "raise", AfterRun("raise", DeploySequel(pc)))
          /\ UNCHANGED host
    /\ UNCHANGED provisionedBy

DeployReload ==
    /\ call = "deploy" /\ pc = "nginx_reload"
    /\ \E res \in RunResults :
          /\ Issue(pc, res, AfterRun(res, DeploySequel(pc)))
          /\ host' = HostAfterService(host, "reload", res)
    /\ UNCHANGED provisionedBy

StartRun == EnterSession("run", "compose_up")

RunComposeUp ==
    /\ call = "run" /\ pc = "compose_up"
    /\ \E res \in RunResults :
          /\ Issue(pc, res, AfterRun(res, "nginx_start"))
          /\ host' = HostAfterCompose(host, ComposeVerb(pc), res)
    /\ UNCHANGED provisionedBy

RunNginxStart ==
    /\ call = "run" /\ pc = "nginx_start"
    /\ \E res \in RunResults :
          /\ Issue(pc, res, AfterRun(res, "exit"))
          /\ host' = HostAfterService(host, "start", res)
    /\ UNCHANGED provisionedBy

StartStop == EnterSession("stop", "compose_down")

StopComposeDown ==
    /\ call = "stop" /\ pc = "compose_down"
    /\ \E res \in RunResults :
          /\ Issue(pc, res, AfterRun(res, "exit"))
          /\ host' = HostAfterCompose(host, ComposeVerb(pc), res)
    /\ UNCHANGED provisionedBy

\* The with block is left: the session is released and the call ends.
ExitSession ==
    /\ pc \in {"exit", "unwind"}
    /\ sessions' = SessionsAfterExit(sessions, pc)
    /\ outcome' = IF pc = "exit" THEN "returned" ELSE "raised"
    /\ pc' = "idle"
    /\ UNCHANGED <<host, call, log, opened, ncalls, provisionedBy, startInstalled,
                   chainVars, buildVars, raceVars>>

LifeIdle ==
    /\ call = "none"
    /\ pc = "idle"
    /\ log = << >>
    /\ sessions = 0
    /\ opened = 0
    /\ outcome = "none"
    /\ ncalls = 0
    /\ provisionedBy = {}
    /\ startInstalled = {}

\* The host before the first call: any of the tools may already be there,
\* an installed proxy may be running; the target has not been built or
\* started on it yet.
LifeInit ==
    /\ host \in [installed : SUBSET Tools, nginxRunning : BOOLEAN,
                  imageBuilt : {FALSE}, serviceUp : {FALSE}]
    /\ host.nginxRunning => "nginx" \in host.installed
    /\ LifeIdle

LifeNext ==
    \/ StartDeploy
    \/ \E t \in Tools : DeployProbe(t)
    \/ \E t \in Tools : DeployInstall(t)
    \/ DeployRmDefault
    \/ DeployUpload
    \/ DeployCopyNginxConfig
    \/ DeployComposeBuild
    \/ DeployCert
    \/ DeployReload
    \/ StartRun
    \/ RunComposeUp
    \/ RunNginxStart
    \/ StartStop
    \/ StopComposeDown
    \/ ExitSession

(***************************************************************************)
(*             The remote shell running the joined command                 *)
(***************************************************************************)
ChainInit ==
    /\ chainPos = 0
    /\ chainRun = << >>
    /\ chainDone = FALSE

\* The shell receives the composite command and starts with its first one.
ChainInvoke ==
    /\ chainPos = 0 /\ ~chainDone
    /\ chainPos' = 1
    /\ UNCHANGED <<chainRun, chainDone, lifeVars, buildVars, raceVars>>

\* The shell runs the command at chainPos; the operator decides what follows.
ChainStep ==
    /\ chainPos \in 1 .. Len(set_up_ssl_cert.cmds) /\ ~chainDone
    /\ \E res \in {"ok", "fail"} :
          /\ chainRun' = Append(chainRun,
                 [pos |-> chainPos, cmd |-> set_up_ssl_cert.cmds[chainPos],
                  argv |-> CertArgv[chainPos], res |-> res])
          /\ IF ShellContinues(set_up_ssl_cert.operator, res)
             THEN chainPos' = chainPos + 1 /\ chainDone' = chainDone
             ELSE chainPos' = chainPos /\ chainDone' = TRUE
    /\ UNCHANGED <<lifeVars, buildVars, raceVars>>

\* No command is left: the invocation ends.
ChainEnd ==
    /\ chainPos = Len(set_up_ssl_cert.cmds) + 1 /\ ~chainDone
    /\ chainDone' = TRUE
    /\ UNCHANGED <<chainPos, chainRun, lifeVars, buildVars, raceVars>>

ChainNext == ChainInvoke \/ ChainStep \/ ChainEnd

(***************************************************************************)
(*                        BUILD STAGE: data                                *)
(***************************************************************************)
\* A file is a sequence of lines; a line has a text and, in a YAML file, the
\* place it has in the document ("top", "svc", "key", "item").
Line(kind, text) == [kind |-> kind, text |-> text]

\* The ${VAR} tokens the templates may hold, with the variable each names.
Placeholder ==
    ( "${TARGET_NAME}"   :> "TARGET_NAME" ) @@
    ( "${EXPOSED_PORTS}" :> "EXPOSED_PORTS" ) @@
    ( "${HOME}"          :> "HOME" ) @@
    ( "${UNSET}"         :> "UNSET" )

IsPlaceholder(text) == text \in DOMAIN Placeholder

\* The target descriptor handed to Webapp.__init__ (bind_ports is a variable).
Target ==
    [ target_name      |-> "web",
      application_port |-> 8000,
      deployment_dir   |-> "/srv/web",
      domain_name      |-> DomainName ]

\* The environment the building process inherits.
OsEnviron == ( "HOME" :> "/root" )

RECURSIVE JoinWith(_, _)
JoinWith(strs, sep) ==
    IF strs = << >> THEN ""
    ELSE IF Len(strs) = 1 THEN strs[1]
    ELSE strs[1] \o sep \o JoinWith(Tail(strs), sep)

\* The keyword arguments build passes to utils.temp_env.
TemplateEnvArgs(ports) ==
    ( "target_name"      :> Target.target_name ) @@
    ( "exposed_ports"    :>
          JoinWith([i \in 1 .. Len(ports) |-> ToString(ports[i][2])], " ") ) @@
    ( "application_port" :> ToString(Target.application_port) ) @@
    ( "deployment_dir"   :> Target.deployment_dir ) @@
    ( "domain_name"      :> Target.domain_name )

UpperCase ==
    ( "target_name"      :> "TARGET_NAME" ) @@
    ( "exposed_ports"    :> "EXPOSED_PORTS" ) @@
    ( "application_port" :> "APPLICATION_PORT" ) @@
    ( "deployment_dir"   :> "DEPLOYMENT_DIR" ) @@
    ( "domain_name"      :> "DOMAIN_NAME" )

\* utils.temp_env(**kwargs, all_caps=True): os.environ inside the with block,
\* the keys in upper case laid over what the process already has.
temp_env(kwargs, env) ==
    LET upper == { UpperCase[k] : k \in DOMAIN kwargs }
    IN  [ K \in upper \cup DOMAIN env |->
            IF K \in upper
            THEN kwargs[CHOOSE k \in DOMAIN kwargs : UpperCase[k] = K]
            ELSE env[K] ]

\* The Template Environment of the specification: the keys derived from the
\* target descriptor, and nothing else.
TemplateEnvironment(ports) == temp_env(TemplateEnvArgs(ports), << >>)

Min(S) == CHOOSE x \in S : \A y \in S : x <= y

\* string.Template(body).substitute(env): every placeholder replaced by its
\* value, or KeyError naming the first placeholder env has no entry for.
SubstituteFrom(body, env) ==
    LET missing == { i \in 1 .. Len(body) :
                        /\ IsPlaceholder(body[i].text)
                        /\ Placeholder[body[i].text] \notin DOMAIN env }
    IN  IF missing = {}
        THEN [ ok   |-> TRUE,
               key  |-> "",
               text |-> [ i \in 1 .. Len(body) |->
                            Line(body[i].kind,
                                 IF IsPlaceholder(body[i].text)
                                 THEN env[Placeholder[body[i].text]]
                                 ELSE body[i].text) ] ]
        ELSE [ ok   |-> FALSE,
               key  |-> Placeholder[body[Min(missing)].text],
               text |-> << >> ]

NoFiles == [ p \in {} |-> << >> ]

WriteFile_append(files, path, content) ==
    [ p \in DOMAIN files \cup {path} |->
        IF p # path THEN files[p]
        ELSE IF path \in DOMAIN files THEN files[path] \o content ELSE content ]

\* Path.write_text: the file is created or truncated, then written.
WriteFile(files, path, content) ==
    [ p \in DOMAIN files \cup {path} |-> IF p = path THEN content ELSE files[p] ]

\* The source tree copied into the build directory's app subdirectory.
SourceTree == ( "app/main.py" :> << Line("text", "main-v2") >> )

\* Where copy_files_with_substitution puts the template at `rel` of a set.
DestDir(set) == IF set = "nginx" THEN "nginx_config" ELSE "."
DestPath(set, rel) == IF set = "nginx" THEN "nginx_config/" \o rel ELSE rel

(***************************************************************************)
(*                     COMPOSE DOCUMENT: load, update, dump                *)
(***************************************************************************)
\* yaml.load: the document's lines as a structure; top-level lines first,
\* then each service with its fields, each field with its value lines.
RECURSIVE LoadLines(_, _, _)
LoadLines(lines, i, doc) ==
    IF i > Len(lines) THEN doc
    ELSE LET l == lines[i]
             n == Len(doc.services)
             m == IF n = 0 THEN 0 ELSE Len(doc.services[n].fields)
         IN  CASE l.kind = "svc" ->
                    LoadLines(lines, i + 1,
                        [doc EXCEPT !.services =
                            Append(@, [name |-> l.text, fields |-> << >>])])
               [] l.kind = "key" /\ n > 0 ->
                    LoadLines(lines, i + 1,
                        [doc EXCEPT !.services[n].fields =
                            Append(@, [key |-> l.text, value |-> << >>])])
               [] l.kind = "item" /\ m > 0 ->
                    LoadLines(lines, i + 1,
                        [doc EXCEPT !.services[n].fields[m].value =
                            Append(@, l.text)])
               [] OTHER ->
                    LoadLines(lines, i + 1, [doc EXCEPT !.top = Append(@, l.text)])

YamlLoad(lines) == LoadLines(lines, 1, [top |-> << >>, services |-> << >>])

RECURSIVE Flatten(_)
Flatten(seqs) == IF seqs = << >> THEN << >> ELSE Head(seqs) \o Flatten(Tail(seqs))

DumpField(f) ==
    << Line("key", f.key) >> \o [ i \in 1 .. Len(f.value) |-> Line("item", f.value[i]) ]

DumpService(s) ==
    << Line("svc", s.name) >> \o
    Flatten([ i \in 1 .. Len(s.fields) |-> DumpField(s.fields[i]) ])

\* yaml.dump: the structure written back, in the order it holds.
YamlDump(doc) ==
    [ i \in 1 .. Len(doc.top) |-> Line("top", doc.top[i]) ] \o
    Flatten([ i \in 1 .. Len(doc.services) |-> DumpService(doc.services[i]) ])

PortStrings_docker_first(ports) ==
    [ i \in 1 .. Len(ports) |-> ToString(ports[i][2]) \o ":" \o ToString(ports[i][1]) ]

\* [f"{host_port}:{docker_port}" for host_port, docker_port in ports.items()]
PortStrings(ports) ==
    [ i \in 1 .. Len(ports) |-> ToString(ports[i][1]) \o ":" \o ToString(ports[i][2]) ]

\* mapping.update({"ports": value}): the value replaced where the key is,
\* the key added at the end where it is not.
UpdateField(fields, key, value) ==
    IF \E i \in 1 .. Len(fields) : fields[i].key = key
    THEN [ i \in 1 .. Len(fields) |->
             IF fields[i].key = key THEN [fields[i] EXCEPT !.value = value]
             ELSE fields[i] ]
    ELSE Append(fields, [key |-> key, value |-> value])

ComposePath == "docker-compose.yaml"

configure_compose_setdefault(files, app_name, ports) ==
    IF ComposePath \notin DOMAIN files
    THEN [ raised |-> "FileNotFoundError", key |-> "", files |-> files ]
    ELSE LET data == YamlLoad(files[ComposePath])
             hit  == { i \in 1 .. Len(data.services) : data.services[i].name = app_name }
             full == IF hit = {}
                     THEN [ data EXCEPT !.services =
                              Append(@, [name |-> app_name, fields |-> << >>]) ]
                     ELSE data
             i    == Min({ k \in 1 .. Len(full.services) : full.services[k].name = app_name })
             updated ==
                 [ full EXCEPT !.services[i].fields =
                       UpdateField(@, "ports", PortStrings(ports)) ]
         IN  [ raised |-> "", key |-> "",
               files  |-> WriteFile(files, ComposePath, YamlDump(updated)) ]

\* configure_compose(dir, app_name, app_docker_ports) on the files of dir:
\* what is raised ("" when nothing is) and the files afterwards.
configure_compose(files, app_name, ports) ==
    IF ComposePath \notin DOMAIN files
    THEN [ raised |-> "FileNotFoundError", key |-> "", files |-> files ]
    ELSE LET data == YamlLoad(files[ComposePath])
             hit  == { i \in 1 .. Len(data.services) : data.services[i].name = app_name }
         IN  IF hit = {}
             THEN [ raised |-> "KeyError", key |-> app_name, files |-> files ]
             ELSE LET i == Min(hit)
                      updated ==
                          [ data EXCEPT !.services[i].fields =
                                UpdateField(@, "ports", PortStrings(ports)) ]
                  IN  [ raised |-> "", key |-> "",
                        files  |-> WriteFile(files, ComposePath, YamlDump(updated)) ]

(***************************************************************************)
(*                        BUILD STAGE: build(clean)                        *)
(***************************************************************************)
rmtree_keeps(dirs, files) == [dirs |-> dirs, files |-> files]

\* shutil.rmtree(self.target_build_dir, ignore_errors=True)
rmtree(dirs, files) == [dirs |-> {}, files |-> NoFiles]

CopytreeRaises_dirs_exist_ok(dirs) == FALSE

\* shutil.copytree(src, self.app_build_dir) starts with os.makedirs(dst):
\* FileExistsError when the app subdirectory is there.
CopytreeRaises(dirs) == "app" \in dirs

\* The templates of a set still to be rendered by the current build.
Pending(set) == { f \in DOMAIN templates[set] : DestPath(set, f) \notin rendered }

\* The operation op leaves the with block, if it was in it, and ends with
\* result, the build directory holding files.
BuildEnd(op, result, key, files) ==
    /\ bpc' = "idle"
    /\ bresult' = result
    /\ berrkey' = key
    /\ environ' = OsEnviron
    /\ history' = Append(history, [ op |-> op, clean |-> clean, result |-> result,
                                    before |-> filesAtStart, after |-> files ])

StartBuild ==
    /\ bpc = "idle"
    /\ nbuilds < MaxBuilds
    /\ \E c \in BOOLEAN :
          /\ clean' = c
          /\ bpc' = IF c THEN "rmtree" ELSE "copytree"
    /\ nbuilds' = nbuilds + 1
    /\ bresult' = "none"
    /\ berrkey' = ""
    /\ rendered' = {}
    /\ dirsAtStart' = bdirs
    /\ filesAtStart' = bfiles
    /\ UNCHANGED <<bdirs, bfiles, templates, bind_ports, environ, history,
                   lifeVars, chainVars, raceVars>>

BuildRmtree ==
    /\ bpc = "rmtree"
    /\ bdirs' = rmtree(bdirs, bfiles).dirs
    /\ bfiles' = rmtree(bdirs, bfiles).files
    /\ bpc' = "copytree"
    /\ UNCHANGED <<templates, bind_ports, environ, clean, rendered, bresult,
                   berrkey, nbuilds, dirsAtStart, filesAtStart, history,
                   lifeVars, chainVars, raceVars>>

\* The copy, or FileExistsError: the error is logged and sys.exit(1) ends build.
BuildCopytree ==
    /\ bpc = "copytree"
    /\ IF CopytreeRaises(bdirs)
       THEN /\ BuildEnd("build", "exit1", "", bfiles)
            /\ UNCHANGED <<bdirs, bfiles>>
       ELSE /\ bdirs' = bdirs \cup {".", "app"}
            /\ bfiles' = SourceTree @@ bfiles
            /\ bpc' = "temp_env"
            /\ UNCHANGED <<bresult, berrkey, environ, history>>
    /\ UNCHANGED <<templates, bind_ports, clean, rendered, nbuilds,
                   dirsAtStart, filesAtStart,
                   lifeVars, chainVars, raceVars>>

\* `with utils.temp_env(...):` entered.
BuildEnterEnv ==
    /\ bpc = "temp_env"
    /\ environ' = temp_env(TemplateEnvArgs(bind_ports), environ)
    /\ bpc' = "mkdir_webapp"
    /\ UNCHANGED <<bdirs, bfiles, templates, bind_ports, clean, rendered, bresult,
                   berrkey, nbuilds, dirsAtStart, filesAtStart, history,
                   lifeVars, chainVars, raceVars>>

\* copy_files_with_substitution: target_dir.mkdir(parents=True, exist_ok=True)
BuildMkdir(set) ==
    /\ bpc = "mkdir_" \o set
    /\ bdirs' = bdirs \cup {".", DestDir(set)}
    /\ bpc' = "render_" \o set
    /\ UNCHANGED <<bfiles, templates, bind_ports, environ, clean, rendered, bresult,
                   berrkey, nbuilds, dirsAtStart, filesAtStart, history,
                   lifeVars, chainVars, raceVars>>

\* One turn of the loop over template_dir.rglob("*"), which yields the files
\* in no stated order: the template is substituted from os.environ and
\* written, or KeyError leaves the loop, the with block and build.
BuildRender(op, set, next) ==
    /\ bpc = "render_" \o set
    /\ \E f \in Pending(set) :
          LET r == SubstituteFrom(templates[set][f], environ)
          IN  IF r.ok
              THEN /\ bfiles' = WriteFile(bfiles, DestPath(set, f), r.text)
                   /\ rendered' = rendered \cup {DestPath(set, f)}
                   /\ bpc' = IF Pending(set) = {f} THEN next ELSE bpc
                   /\ UNCHANGED <<bresult, berrkey, environ, history>>
              ELSE /\ BuildEnd(op, "KeyError", r.key, bfiles)
                   /\ UNCHANGED <<bfiles, rendered>>
    /\ UNCHANGED <<bdirs, templates, bind_ports, clean, nbuilds,
                   dirsAtStart, filesAtStart,
                   lifeVars, chainVars, raceVars>>

\* configure_compose, then the with block is left and build returns.
BuildConfigureCompose ==
    /\ bpc = "configure_compose"
    /\ LET r == configure_compose(bfiles, Target.target_name, bind_ports)
       IN  /\ bfiles' = r.files
           /\ IF r.raised = ""
              THEN BuildEnd("build", "ok", "", r.files)
              ELSE BuildEnd("build", r.raised, r.key, r.files)
    /\ UNCHANGED <<bdirs, templates, bind_ports, clean, rendered, nbuilds,
                   dirsAtStart, filesAtStart, lifeVars, chainVars, raceVars>>

\* A template set every placeholder of which the target defines, with the
\* target's service in the compose document.
FixedTemplates ==
    [ webapp |-> ("Dockerfile" :> << Line("text", "EXPOSE") >>) @@
                 ("docker-compose.yaml" :>
                     << Line("svc", "${TARGET_NAME}"), Line("key", "build"),
                        Line("item", "context: ."), Line("key", "ports"),
                        Line("key", "network_mode"), Line("item", "host") >>),
      nginx  |-> ("site.conf" :> << Line("text", "server") >>) ]

\* Between two builds, after one that failed on its templates, whoever
\* builds puts the templates right.
FixTemplates ==
    /\ bpc = "idle"
    /\ bresult \in {"KeyError", "FileNotFoundError"}
    /\ nbuilds < MaxBuilds
    /\ templates' = FixedTemplates
    /\ UNCHANGED <<bdirs, bfiles, bind_ports, environ, bpc, clean, rendered, bresult,
                   berrkey, nbuilds, dirsAtStart, filesAtStart, history,
                   lifeVars, chainVars, raceVars>>

BuildNext ==
    \/ StartBuild
    \/ FixTemplates
    \/ BuildRmtree
    \/ BuildCopytree
    \/ BuildEnterEnv
    \/ BuildMkdir("webapp")
    \/ BuildRender("build", "webapp", "mkdir_nginx")
    \/ BuildMkdir("nginx")
    \/ BuildRender("build", "nginx", "configure_compose")
    \/ BuildConfigureCompose

\* ---- the inputs of the build stage ----
MaxTemplateLen == 2

TextTokens == {"EXPOSE", "${TARGET_NAME}", "${HOME}", "${UNSET}"}

RECURSIVE SeqsUpTo(_, _)
SeqsUpTo(S, n) ==
    IF n = 0 THEN { << >> }
    ELSE LET shorter == SeqsUpTo(S, n - 1)
         IN  shorter \cup { Append(q, x) : q \in shorter, x \in S }

\* Bodies of the Dockerfile template: up to MaxTemplateLen lines.
DockerfileBodies ==
    { [ i \in 1 .. Len(q) |-> Line("text", q[i]) ] :
        q \in SeqsUpTo(TextTokens, MaxTemplateLen) \ { << >> } }

\* Bodies of the reverse-proxy site template: one line.
SiteBodies == { << Line("text", t) >> : t \in {"server", "${TARGET_NAME}", "${UNSET}"} }

\* Bodies of the compose template: the target's service keyed by placeholder
\* with no ports yet; keyed literally with ports of an earlier mapping and a
\* top-level line; a document without the target's service; a second service
\* before the target's, which has no ports key.
ComposeBodies ==
    { << Line("svc", "${TARGET_NAME}"), Line("key", "build"), Line("item", "context: ."),
         Line("key", "ports"), Line("key", "network_mode"), Line("item", "host") >>,
      << Line("top", "version: 3"), Line("svc", "web"), Line("key", "ports"),
         Line("item", "1:1"), Line("key", "network_mode"), Line("item", "host") >>,
      << Line("svc", "other"), Line("key", "ports"), Line("item", "9:9") >>,
      << Line("svc", "db"), Line("key", "image"), Line("item", "postgres"),
         Line("svc", "${TARGET_NAME}"), Line("key", "network_mode"), Line("item", "host") >> }

TemplateSets ==
    { [ webapp |-> ("Dockerfile" :> d) @@ ("docker-compose.yaml" :> c),
        nginx  |-> ("site.conf" :> n) ] :
        d \in DockerfileBodies, c \in ComposeBodies, n \in SiteBodies }

BindPortsChoices ==
    { << >>,
      << <<8080, 80>>, <<8443, 443>> >>,
      << <<8443, 443>>, <<8080, 80>> >> }

\* The build directory before the first build: absent; left by an earlier
\* build; or there without an app subdirectory.
StaleFile == << Line("text", "stale") >>

InitialBuildDirs ==
    { [ dirs |-> {}, files |-> NoFiles ],
      [ dirs |-> {".", "app", "nginx_config"},
        files |-> ( "app/main.py" :> << Line("text", "main-v1") >> ) @@
                  ( "Dockerfile" :> StaleFile ) @@
                  ( "nginx_config/old.conf" :> StaleFile ) ],
      [ dirs |-> {"."},
        files |-> ( "Dockerfile" :> StaleFile ) @@ ( "notes.txt" :> StaleFile ) ] }

BuildIdle ==
    /\ environ = OsEnviron
    /\ bpc = "idle"
    /\ clean = FALSE
    /\ rendered = {}
    /\ bresult = "none"
    /\ berrkey = ""
    /\ nbuilds = 0
    /\ dirsAtStart = {}
    /\ filesAtStart = NoFiles
    /\ history = << >>

BuildInit ==
    /\ templates \in TemplateSets
    /\ bind_ports \in BindPortsChoices
    /\ \E d \in InitialBuildDirs : bdirs = d.dirs /\ bfiles = d.files
    /\ BuildIdle

(***************************************************************************)
(*     copy_files_with_substitution called on its own, again and again     *)
(***************************************************************************)
\* One call of copy_files_with_substitution for a template set starts, in
\* the Template Environment build calls it in.
RenderStart(set) ==
    /\ bpc = "idle"
    /\ nbuilds < MaxBuilds
    /\ bpc' = "mkdir_" \o set
    /\ environ' = temp_env(TemplateEnvArgs(bind_ports), environ)
    /\ nbuilds' = nbuilds + 1
    /\ bresult' = "none"
    /\ berrkey' = ""
    /\ rendered' = {}
    /\ dirsAtStart' = bdirs
    /\ filesAtStart' = bfiles
    /\ UNCHANGED <<bdirs, bfiles, templates, bind_ports, clean, history,
                   lifeVars, chainVars, raceVars>>

\* The loop over the templates is through: the call returns.
RenderReturn(set) ==
    /\ bpc = "return_" \o set
    /\ BuildEnd(set, "ok", "", bfiles)
    /\ UNCHANGED <<bdirs, bfiles, templates, bind_ports, clean, rendered, nbuilds,
                   dirsAtStart, filesAtStart, lifeVars, chainVars, raceVars>>

\* Between two calls the destination is removed: the next call renders
\* into a fresh one.
FreshDestination ==
    /\ bpc = "idle"
    /\ bdirs # {}
    /\ bdirs' = rmtree(bdirs, bfiles).dirs
    /\ bfiles' = rmtree(bdirs, bfiles).files
    /\ UNCHANGED <<templates, bind_ports, environ, bpc, clean, rendered, bresult,
                   berrkey, nbuilds, dirsAtStart, filesAtStart, history,
                   lifeVars, chainVars, raceVars>>

RenderNext ==
    \/ RenderStart("webapp")
    \/ RenderStart("nginx")
    \/ BuildMkdir("webapp")
    \/ BuildMkdir("nginx")
    \/ BuildRender("webapp", "webapp", "return_webapp")
    \/ BuildRender("nginx", "nginx", "return_nginx")
    \/ RenderReturn("webapp")
    \/ RenderReturn("nginx")
    \/ FreshDestination

(***************************************************************************)
(*   Two processes run build(clean=False) of the target at the same time   *)
(***************************************************************************)
Builders == {"a", "b"}

MkdirRaises_exist_ok(dirs, d) == FALSE

\* os.mkdir(d): one system call that creates d or fails with
\* FileExistsError when d is there.
MkdirRaises(dirs, d) == d \in dirs

Racer(pcv, result, rendered_, wrote, made) ==
    [ pc |-> pcv, result |-> result, rendered |-> rendered_, wrote |-> wrote,
      made |-> made ]

RaceFrame == UNCHANGED <<templates, bind_ports, environ, bpc, clean, rendered,
                         bresult, berrkey, nbuilds, dirsAtStart, filesAtStart,
                         history, lifeVars, chainVars>>

\* shutil.copytree -> os.makedirs(app_build_dir): the parents first, a
\* parent made by someone else in the meantime being fine.
RaceMakedirsParents(p) ==
    /\ racers[p].pc = "copytree"
    /\ bdirs' = bdirs \cup {"."}
    /\ racers' = [racers EXCEPT ![p].pc = "mkdir_app",
                                ![p].made = @ \cup ({"."} \ bdirs)]
    /\ UNCHANGED bfiles
    /\ RaceFrame

\* ... then os.mkdir(app_build_dir): FileExistsError is caught by build,
\* which logs "exists already. To overwrite, build --clean." and exits 1.
RaceMkdirApp(p) ==
    /\ racers[p].pc = "mkdir_app"
    /\ IF MkdirRaises(bdirs, "app")
       THEN /\ racers' = [racers EXCEPT ![p].pc = "done", ![p].result = "exit1"]
            /\ UNCHANGED bdirs
       ELSE /\ bdirs' = bdirs \cup {"app"}
            /\ racers' = [racers EXCEPT ![p].pc = "copy_source",
                                        ![p].made = @ \cup {"app"}]
    /\ UNCHANGED bfiles
    /\ RaceFrame

\* copytree copies the source tree into the directory it made.
RaceCopySource(p) ==
    /\ racers[p].pc = "copy_source"
    /\ bfiles' = SourceTree @@ bfiles
    /\ racers' = [racers EXCEPT ![p].pc = "mkdir_webapp",
                                ![p].wrote = @ \cup DOMAIN SourceTree]
    /\ UNCHANGED bdirs
    /\ RaceFrame

RaceMkdir(p, set) ==
    /\ racers[p].pc = "mkdir_" \o set
    /\ bdirs' = bdirs \cup {".", DestDir(set)}
    /\ racers' = [racers EXCEPT ![p].pc = "render_" \o set,
                                ![p].rendered = {},
                                ![p].made = @ \cup ({".", DestDir(set)} \ bdirs)]
    /\ UNCHANGED bfiles
    /\ RaceFrame

\* One turn of the rendering loop of builder p, in its own process
\* environment with the Template Environment laid over it.
RaceRender(p, set, next) ==
    /\ racers[p].pc = "render_" \o set
    /\ \E f \in { g \in DOMAIN templates[set] : DestPath(set, g) \notin racers[p].rendered } :
          LET r == SubstituteFrom(templates[set][f],
                                  temp_env(TemplateEnvArgs(bind_ports), OsEnviron))
              left == { g \in DOMAIN templates[set] :
                          DestPath(set, g) \notin racers[p].rendered } \ {f}
          IN  IF r.ok
              THEN /\ bfiles' = WriteFile(bfiles, DestPath(set, f), r.text)
                   /\ racers' = [racers EXCEPT
                         ![p].pc = IF left = {} THEN next ELSE @,
                         ![p].rendered = @ \cup {DestPath(set, f)},
                         ![p].wrote = @ \cup {DestPath(set, f)}]
              ELSE /\ racers' = [racers EXCEPT ![p].pc = "done", ![p].result = "KeyError"]
                   /\ UNCHANGED bfiles
    /\ UNCHANGED bdirs
    /\ RaceFrame

RaceConfigureCompose(p) ==
    /\ racers[p].pc = "configure_compose"
    /\ LET r == configure_compose(bfiles, Target.target_name, bind_ports)
       IN  /\ bfiles' = r.files
           /\ racers' = [racers EXCEPT
                 ![p].pc = "done",
                 ![p].result = IF r.raised = "" THEN "ok" ELSE r.raised,
                 ![p].wrote = IF r.raised = "" THEN @ \cup {ComposePath} ELSE @]
    /\ UNCHANGED bdirs
    /\ RaceFrame

RaceNext ==
    \E p \in Builders :
        \/ RaceMakedirsParents(p)
        \/ RaceMkdirApp(p)
        \/ RaceCopySource(p)
        \/ RaceMkdir(p, "webapp")
        \/ RaceRender(p, "webapp", "mkdir_nginx")
        \/ RaceMkdir(p, "nginx")
        \/ RaceRender(p, "nginx", "configure_compose")
        \/ RaceConfigureCompose(p)

\* Both builders are about to call copytree.
RaceIdle == racers = [ p \in Builders |-> Racer("copytree", "none", {}, {}, {}) ]

\* The two builds start on a build directory that is not there.
RaceInit ==
    /\ templates \in TemplateSets
    /\ bind_ports \in BindPortsChoices
    /\ bdirs = {}
    /\ bfiles = NoFiles
    /\ BuildIdle
    /\ RaceIdle

(***************************************************************************)
(*                          SPECIFICATIONS                                 *)
(***************************************************************************)
\* One instance of the inputs, for the specifications that do not build.
BuildQuiet ==
    /\ templates = CHOOSE t \in TemplateSets : TRUE
    /\ bind_ports = << >>
    /\ bdirs = {}
    /\ bfiles = NoFiles
    /\ BuildIdle

LifeQuiet ==
    /\ host = [installed |-> {}, nginxRunning |-> FALSE,
               imageBuilt |-> FALSE, serviceUp |-> FALSE]
    /\ LifeIdle

Init == LifeInit /\ ChainInit /\ BuildQuiet /\ RaceIdle
Next == LifeNext
Spec == Init /\ [][Next]_vars

InitChain == LifeQuiet /\ ChainInit /\ BuildQuiet /\ RaceIdle
NextChain == ChainNext
SpecChain == InitChain /\ [][NextChain]_vars

InitBuild == LifeQuiet /\ ChainInit /\ BuildInit /\ RaceIdle
NextBuild == BuildNext
SpecBuild == InitBuild /\ [][NextBuild]_vars

\* No template of the model refers to the port mapping: one mapping will do.
InitRender ==
    /\ LifeQuiet
    /\ ChainInit
    /\ templates \in TemplateSets
    /\ bind_ports = << <<8080, 80>>, <<8443, 443>> >>
    /\ \E d \in InitialBuildDirs : bdirs = d.dirs /\ bfiles = d.files
    /\ BuildIdle
    /\ RaceIdle
NextRender == RenderNext
SpecRender == InitRender /\ [][NextRender]_vars

InitRace == LifeQuiet /\ ChainInit /\ RaceInit
NextRace == RaceNext
SpecRace == InitRace /\ [][NextRace]_vars

(***************************************************************************)
(*                     PROPERTIES OF THE LIFECYCLE                         *)
(***************************************************************************)
Positions(cmd) == { i \in 1 .. Len(log) : log[i].cmd = cmd }
Issued(cmd) == Positions(cmd) # {}
Pos(cmd) == Min(Positions(cmd))
Logged(cmd, res) == \E i \in 1 .. Len(log) : log[i] = Entry(cmd, res)

ProbeCmds   == { ProbeCmd(t) : t \in Tools }
InstallCmds == { InstallCmd(t) : t \in Tools }
RmCmds      == { "rm_sites_available", "rm_sites_enabled" }
TailCmds    == << "upload", "compose_build", "set_up_ssl_cert", "nginx_reload" >>
AfterPrereqCmds ==
    { "upload", "cp_nginx_config", "compose_build", "set_up_ssl_cert", "nginx_reload" }

Ended    == pc = "idle" /\ outcome # "none"
Returned == pc = "idle" /\ outcome = "returned"
Raised   == pc = "idle" /\ outcome = "raised"

C2_ProbeErrorAborts ==
    call = "deploy" =>
        \A i \in 1 .. Len(log) :
            (log[i].cmd \in ProbeCmds /\ log[i].res = "raise") =>
                /\ i = Len(log)
                /\ \A c \in AfterPrereqCmds : ~Issued(c)
                /\ pc \in {"unwind", "idle"}
                /\ pc = "idle" => outcome = "raised"

C2_Witness ==
    /\ call = "deploy" /\ Raised
    /\ Len(log) = 2
    /\ log[1].cmd = "probe_docker" /\ log[1].res = "fail"
    /\ log[2] = Entry("probe_python", "raise")

\* C3 (as claimed): a step of deploy other than a probe whose command returns
\* a failing result is the last step issued, and deploy ends in a failure.
C3_FailingStepAborts ==
    call = "deploy" =>
        \A i \in 1 .. Len(log) :
            (log[i].cmd \notin ProbeCmds /\ log[i].res = "fail") =>
                /\ i = Len(log)
                /\ pc \in {"unwind", "idle"}
                /\ pc = "idle" => outcome = "raised"

\* C4 (as claimed): the install of a tool is issued exactly when the probe
\* before it reported the tool absent.
C4_InstallIffAbsent ==
    call = "deploy" =>
        \A t \in Tools :
            /\ Issued(InstallCmd(t)) => Logged(ProbeCmd(t), "fail")
            /\ \A i \in 1 .. Len(log) - 1 :
                  log[i] = Entry(ProbeCmd(t), "fail") => log[i + 1].cmd = InstallCmd(t)

\* C5 (as claimed): a deploy on a host that an earlier deploy took through
\* steps 1-3 and that has docker, python and nginx issues no install and no
\* removal of the default site, and, run to its end, has issued upload,
\* config copy, compose build, certificate procedure and reload.
C5_RerunInstallsNothing ==
    ( /\ call = "deploy"
      /\ \E c \in provisionedBy : c < ncalls
      /\ startInstalled = Tools ) =>
        /\ \A i \in 1 .. Len(log) : log[i].cmd \notin InstallCmds \cup RmCmds
        /\ Returned => \A c \in AfterPrereqCmds : Issued(c)

\* C6: a call holds exactly one session while it runs and none once it has
\* ended, whether it returned or raised.
C6_SessionReleased ==
    /\ pc # "idle" => sessions = 1 /\ opened = 1
    /\ pc = "idle" => sessions = 0
    /\ Ended => opened = 1

C6_Witness ==
    /\ call = "deploy" /\ Raised /\ sessions = 0 /\ opened = 1
    /\ Len(log) >= 4
    /\ log[Len(log)] = Entry("compose_build", "raise")

(***************************************************************************)
(*                  PROPERTIES OF THE CERTIFICATE CHAIN                    *)
(***************************************************************************)
\* C7: whichever commands of the certificate chain fail, the shell runs the
\* commands in chain order and the invocation ends only after the last one.
C7_ChainRunsEveryCommand ==
    /\ Len(chainRun) <= Len(CertCommands)
    /\ \A i \in 1 .. Len(chainRun) :
          chainRun[i].pos = i /\ chainRun[i].cmd = CertCommands[i]
    /\ chainDone => Len(chainRun) = Len(CertCommands)

C7_Witness ==
    /\ chainDone
    /\ Len(chainRun) = Len(CertCommands)
    /\ chainRun[1].res = "fail"
    /\ chainRun[6].res = "fail"
    /\ chainRun[7].res = "ok"
    /\ chainRun[8].cmd = "pkill_nginx"

Words(argv) == { argv[k] : k \in 1 .. Len(argv) }

\* The word after option opt in argv ("" when opt is not there or is last).
FollowedBy(argv, opt) ==
    LET at == { k \in 1 .. Len(argv) - 1 : argv[k] = opt }
    IN  IF at = {} THEN "" ELSE argv[Min(at) + 1]

\* C18: the one invocation of the certificate chain runs its commands from
\* the first on, in this order: install python3, python3-venv, libaugeas0;
\* create the venv /opt/certbot/; upgrade its pip; install certbot and
\* certbot-nginx with it; symlink certbot to /usr/bin; pkill nginx; certbot;
\* pkill nginx.  Whenever certbot has run, a pkill nginx ran right before
\* it, and when the invocation is over one ran right after it; certbot runs
\* with --nginx, --test-cert, --non-interactive and --agree-tos for the
\* target's domain and contact address.
C18_CertChainOrder ==
    /\ \A i \in 1 .. Len(chainRun) :
          /\ chainRun[i].pos = i
          /\ i = 1 => /\ {"python3", "python3-venv", "libaugeas0"} \subseteq
                            Words(chainRun[i].argv)
                      /\ "install" \in Words(chainRun[i].argv)
          /\ i = 2 => chainRun[i].argv = << "python3", "-m", "venv", "/opt/certbot/" >>
          /\ i = 3 => chainRun[i].argv =
                          << "/opt/certbot/bin/pip", "install", "--upgrade", "pip" >>
          /\ i = 4 => chainRun[i].argv =
                          << "/opt/certbot/bin/pip", "install", "certbot", "certbot-nginx" >>
          /\ i = 5 => chainRun[i].argv =
                          << "ln", "-s", "/opt/certbot/bin/certbot", "/usr/bin/certbot" >>
          /\ i \in {6, 8} => chainRun[i].argv = << "pkill", "nginx" >>
          /\ i = 7 => chainRun[i].argv[1] = "certbot"
          /\ i <= 8
    /\ \A i \in 1 .. Len(chainRun) :
          chainRun[i].argv[1] = "certbot" =>
              /\ i > 1 /\ chainRun[i - 1].argv = << "pkill", "nginx" >>
              /\ chainDone =>
                    /\ Len(chainRun) > i
                    /\ chainRun[i + 1].argv = << "pkill", "nginx" >>
              /\ { "--nginx", "--test-cert", "--non-interactive", "--agree-tos" }
                    \subseteq Words(chainRun[i].argv)
              /\ FollowedBy(chainRun[i].argv, "-d") = Target.domain_name
              /\ FollowedBy(chainRun[i].argv, "--email") = Email
    /\ chainDone => Len(chainRun) = 8

\* The invocation is over, certbot failed in test-certificate mode between
\* two proxy stops of which the first found nothing to stop.
C18_Witness ==
    /\ chainDone
    /\ Len(chainRun) = 8
    /\ chainRun[6].argv = << "pkill", "nginx" >> /\ chainRun[6].res = "fail"
    /\ chainRun[7].argv[1] = "certbot" /\ chainRun[7].res = "fail"
    /\ "--test-cert" \in Words(chainRun[7].argv)
    /\ chainRun[8].argv = << "pkill", "nginx" >> /\ chainRun[8].res = "ok"

(***************************************************************************)
(*                    PROPERTIES OF THE BUILD STAGE                        *)
(***************************************************************************)
BuildEnded == bpc = "idle" /\ nbuilds > 0

\* C8 (as claimed): build(clean=False) on an existing build directory fails
\* and leaves every directory and file of it as it was.
C8_ExistingDirUntouched ==
    (nbuilds > 0 /\ ~clean /\ "." \in dirsAtStart) =>
        /\ bdirs = dirsAtStart
        /\ bfiles = filesAtStart
        /\ bpc = "idle" => bresult = "exit1"

ExpectedPorts ==
    CASE bind_ports = << >> -> << >>
      [] bind_ports = << <<8080, 80>>, <<8443, 443>> >> -> << "8080:80", "8443:443" >>
      [] bind_ports = << <<8443, 443>>, <<8080, 80>> >> -> << "8443:443", "8080:80" >>

ArtifactPaths ==
    {"app/main.py", "Dockerfile", "docker-compose.yaml", "nginx_config/site.conf"}

\* The file at `path` is the template `body` with every placeholder replaced
\* by the value the target gives it and every other line as it is.
RenderedAs(path, body) ==
    /\ Len(bfiles[path]) = Len(body)
    /\ \A i \in 1 .. Len(body) :
          /\ bfiles[path][i].kind = body[i].kind
          /\ bfiles[path][i].text =
                CASE body[i].text = "${TARGET_NAME}" -> "web"
                  [] body[i].text = "${HOME}" -> "/root"
                  [] OTHER -> body[i].text

\* The value lists of the "ports" fields of the services called `name` in
\* the compose document at ComposePath.
PortsOf(name) ==
    LET doc == YamlLoad(bfiles[ComposePath])
    IN  { << i, doc.services[i].fields[j].value >> :
            << i, j >> \in
               { ij \in (1 .. Len(doc.services)) \X (1 .. Len(bfiles[ComposePath])) :
                    /\ doc.services[ij[1]].name = name
                    /\ ij[2] <= Len(doc.services[ij[1]].fields)
                    /\ doc.services[ij[1]].fields[ij[2]].key = "ports" } }

\* C9: in a build(clean=True), from the removal on nothing of the prior
\* build directory is left beside what this build wrote; and when the build
\* succeeds the build directory holds exactly the copied app source, the
\* rendered app config, the rendered proxy config under nginx_config and the
\* compose document, whose one "ports" entry for the target is the target's
\* port mapping as "host:container" strings in the mapping's order.
C9_CleanBuildArtifact ==
    (nbuilds > 0 /\ clean) =>
        /\ bpc # "rmtree" =>
              /\ DOMAIN bfiles \subseteq DOMAIN SourceTree \cup rendered
              /\ bdirs \subseteq {".", "app", "nginx_config"}
        /\ (bpc = "idle" /\ bresult = "ok") =>
              /\ DOMAIN bfiles = ArtifactPaths
              /\ bdirs = {".", "app", "nginx_config"}
              /\ bfiles["app/main.py"] = SourceTree["app/main.py"]
              /\ RenderedAs("Dockerfile", templates.webapp["Dockerfile"])
              /\ RenderedAs("nginx_config/site.conf", templates.nginx["site.conf"])
              /\ \E i \in 1 .. Len(bfiles[ComposePath]) :
                    PortsOf("web") = { << i, ExpectedPorts >> }

C9_Witness ==
    /\ nbuilds > 0 /\ clean /\ bpc = "idle" /\ bresult = "ok"
    /\ "notes.txt" \in DOMAIN filesAtStart
    /\ "notes.txt" \notin DOMAIN bfiles
    /\ bfiles["Dockerfile"] = << Line("text", "EXPOSE"), Line("text", "web") >>
    /\ bind_ports = << <<8080, 80>>, <<8443, 443>> >>
    /\ PortsOf("web") = { << 1, << "8080:80", "8443:443" >> >> }

\* The variables a template body refers to that the Template Environment
\* of the target does not define.
Undefined(body) ==
    { Placeholder[body[i].text] :
        i \in { k \in 1 .. Len(body) : IsPlaceholder(body[k].text) } }
    \ DOMAIN TemplateEnvironment(bind_ports)

\* C10 (as claimed): a template that refers to a variable the Template
\* Environment lacks is never written to its destination by the build, and
\* the build that reaches it ends with a KeyError naming such a variable.
C10_MissingKeyNeverRendered ==
    \A set \in {"webapp", "nginx"} : \A f \in DOMAIN templates[set] :
        Undefined(templates[set][f]) # {} =>
            /\ DestPath(set, f) \notin rendered
            /\ (BuildEnded /\ bresult = "KeyError") =>
                  \E s2 \in {"webapp", "nginx"} : \E g \in DOMAIN templates[s2] :
                      berrkey \in Undefined(templates[s2][g])

(***************************************************************************)
(*                 PROPERTIES OF THE COMPOSE MUTATION                      *)
(***************************************************************************)
NotPorts(f) == f.key # "ports"

Named(doc, name) == { i \in 1 .. Len(doc.services) : doc.services[i].name = name }

\* The step in which configure_compose runs to its end.
ComposeConfigured == bpc = "configure_compose" /\ bresult' = "ok"

\* C11: a configure_compose that runs to its end leaves the target's service
\* with one "ports" entry, the "host:container" strings of the mapping in
\* its order (whatever ports were there before), and changes nothing else:
\* top-level lines, the services and their order, every other service,
\* every other field of the target's service and their order, every other
\* file.
C11_PortsSetRestKept ==
    [][ ComposeConfigured =>
          LET before == YamlLoad(bfiles[ComposePath])
              after  == YamlLoad(bfiles'[ComposePath])
          IN  /\ after.top = before.top
              /\ Len(after.services) = Len(before.services)
              /\ \A i \in 1 .. Len(before.services) :
                    /\ after.services[i].name = before.services[i].name
                    /\ before.services[i].name # Target.target_name =>
                          after.services[i] = before.services[i]
                    /\ before.services[i].name = Target.target_name =>
                          /\ SelectSeq(after.services[i].fields, NotPorts) =
                                SelectSeq(before.services[i].fields, NotPorts)
                          /\ \E j \in 1 .. Len(after.services[i].fields) :
                                /\ after.services[i].fields[j] =
                                      [key |-> "ports", value |-> ExpectedPorts]
                                /\ \A k \in 1 .. Len(after.services[i].fields) :
                                      after.services[i].fields[k].key = "ports" => k = j
                                /\ \A k \in 1 .. Len(before.services[i].fields) :
                                      before.services[i].fields[k].key = "ports" => k = j
              /\ DOMAIN bfiles' = DOMAIN bfiles
              /\ \A p \in DOMAIN bfiles \ {ComposePath} : bfiles'[p] = bfiles[p]
      ]_vars

\* A build whose compose template had a top-level line and earlier ports
\* "1:1" for the target, configured with {8080: 80, 8443: 443}.
C11_Witness ==
    /\ bpc = "idle" /\ bresult = "ok"
    /\ bind_ports = << <<8080, 80>>, <<8443, 443>> >>
    /\ \E i \in DOMAIN templates.webapp[ComposePath] :
          templates.webapp[ComposePath][i] = Line("item", "1:1")
    /\ bfiles[ComposePath] =
          << Line("top", "version: 3"), Line("svc", "web"), Line("key", "ports"),
             Line("item", "8080:80"), Line("item", "8443:443"),
             Line("key", "network_mode"), Line("item", "host") >>

\* C12: configure_compose on a document with no service keyed by the
\* target's name raises KeyError naming the target, which ends the build,
\* and writes nothing: the document and every other file stay as they were,
\* no service entry is added.
C12_MissingServiceFails ==
    [][ ( /\ bpc = "configure_compose"
          /\ Named(YamlLoad(bfiles[ComposePath]), Target.target_name) = {} ) =>
            /\ bfiles' = bfiles
            /\ bdirs' = bdirs
            /\ bpc' = "idle"
            /\ bresult' = "KeyError"
            /\ berrkey' = Target.target_name
      ]_vars

C12_Witness ==
    /\ bpc = "idle" /\ bresult = "KeyError" /\ berrkey = "web"
    /\ "nginx_config/site.conf" \in rendered
    /\ bfiles[ComposePath] =
          << Line("svc", "other"), Line("key", "ports"), Line("item", "9:9") >>

(***************************************************************************)
(*              FURTHER PROPERTIES OF THE REMOTE LIFECYCLE                 *)
(***************************************************************************)
RunCmds == << "compose_up", "nginx_start" >>

\* C13 (as claimed): in run the proxy start is issued only after compose-up,
\* no command is issued twice, and when compose-up comes back with a
\* failing result the proxy start is not issued and run ends in a failure.
C13_ComposeUpFailureSurfaces ==
    call = "run" =>
        /\ \A k \in 1 .. Len(RunCmds) : Cardinality(Positions(RunCmds[k])) <= 1
        /\ Issued("nginx_start") =>
              Issued("compose_up") /\ Pos("compose_up") < Pos("nginx_start")
        /\ Logged("compose_up", "fail") =>
              /\ ~Issued("nginx_start")
              /\ pc \in {"unwind", "idle"}
              /\ pc = "idle" => outcome = "raised"

\* C17: in deploy the two removals of the default site are issued only
\* inside the proxy's prerequisite block: never without the proxy install
\* before them, once each, sites-available then sites-enabled, before the
\* upload and before the copy of the proxy configuration; and a deploy
\* that runs to its end has issued both exactly when it issued the install.
C17_DefaultSiteRemoval ==
    call = "deploy" =>
        /\ \A c \in RmCmds : Cardinality(Positions(c)) <= 1
        /\ Issued("rm_sites_available") =>
              /\ Issued(InstallCmd("nginx"))
              /\ Pos("rm_sites_available") = Pos(InstallCmd("nginx")) + 1
        /\ Issued("rm_sites_enabled") =>
              /\ Issued("rm_sites_available")
              /\ Pos("rm_sites_enabled") = Pos("rm_sites_available") + 1
        /\ \A c \in RmCmds : \A d \in {"upload", "cp_nginx_config"} :
              (Issued(c) /\ Issued(d)) => Pos(c) < Pos(d)
        /\ (Issued("upload") \/ Returned) =>
              \A c \in RmCmds : Issued(c) <=> Issued(InstallCmd("nginx"))

\* A deploy that installed the proxy, removed both default sites and went
\* on to the upload and the copy.
C17_Witness ==
    /\ call = "deploy" /\ Returned
    /\ Issued(InstallCmd("nginx"))
    /\ Pos("rm_sites_available") = Pos(InstallCmd("nginx")) + 1
    /\ Pos("rm_sites_enabled") = Pos(InstallCmd("nginx")) + 2
    /\ Pos("upload") = Pos(InstallCmd("nginx")) + 3
    /\ Issued("cp_nginx_config")

AllOk == \A i \in 1 .. Len(log) : log[i].res = "ok"

\* C15 (as claimed): when a deploy in which every step came back with
\* success returns, the proxy is running.
C15_ProxyRunningAfterDeploy ==
    (call = "deploy" /\ Returned /\ AllOk) => host.nginxRunning

ComposeUpOk == call = "run" /\ pc = "compose_up" /\ log' = Append(log, Entry("compose_up", "ok"))

\* C16 (as claimed): when the first call on a host, a deploy in which every
\* step came back with success, returns, the target's service is started.
C16_DeployStartsService ==
    (ncalls = 1 /\ call = "deploy" /\ Returned /\ AllOk) => host.serviceUp

\* C16 (amended): deploy builds the service's image and never starts the
\* service; the one step that takes the service from stopped to started is
\* the compose-up of run coming back with success.
C16_DeployBuildsRunStarts ==
    [][ /\ ( /\ call = "deploy" /\ pc = "compose_build"
             /\ log' = Append(log, Entry("compose_build", "ok")) ) =>
                host'.imageBuilt /\ host'.serviceUp = host.serviceUp
        /\ call = "deploy" => host'.serviceUp = host.serviceUp
        /\ (host'.serviceUp /\ ~host.serviceUp) => ComposeUpOk
        /\ ComposeUpOk => host'.serviceUp
      ]_vars

\* A first deploy with every step successful has returned: image built,
\* service not started.
C16_Witness ==
    /\ ncalls = 1 /\ call = "deploy" /\ Returned /\ AllOk
    /\ Logged("compose_build", "ok")
    /\ host.imageBuilt
    /\ ~host.serviceUp

(***************************************************************************)
(*                  PROPERTIES OF REPEATED BUILDS                          *)
(***************************************************************************)
\* An ended build that got past the source copy and failed after it.
FailedAfterCopy(h) == h.op = "build" /\ h.result \in {"KeyError", "FileNotFoundError"}

\* C20: a build that fails while rendering or in the compose mutation
\* leaves what it had written: the copied source and the files rendered so
\* far stay in the build directory until a build(clean=True) removes
\* them.  Every later build(clean=False)
\* then ends with the collision exit and writes nothing, and a later build
\* that succeeds was a build(clean=True).
C20_FailedBuildNotRolledBack ==
    \A i \in 1 .. Len(history) :
        FailedAfterCopy(history[i]) =>
            /\ \A p \in DOMAIN SourceTree :
                  /\ p \in DOMAIN history[i].after
                  /\ history[i].after[p] = SourceTree[p]
            /\ (i = Len(history) /\ (bpc = "idle" \/ (bpc = "copytree" /\ ~clean))) =>
                  /\ "app" \in bdirs
                  /\ bfiles = history[i].after
            /\ \A j \in i + 1 .. Len(history) :
                  /\ ~history[j].clean =>
                        /\ history[j].result = "exit1"
                        /\ history[j].after = history[j].before
                  /\ history[j].result = "ok" => history[j].clean

\* A build failed on a template after the copy, the templates were put
\* right, and the build(clean=False) after it ended with the collision exit,
\* the directory as the failed build left it.
C20_Witness ==
    /\ Len(history) = 2
    /\ history[1].result = "KeyError"
    /\ "Dockerfile" \in DOMAIN history[1].after
    /\ ~history[2].clean
    /\ history[2].result = "exit1"
    /\ templates = FixedTemplates
    /\ bfiles = history[1].after

(***************************************************************************)
(*                   PROPERTIES OF REPEATED RENDERING                      *)
(***************************************************************************)
DestPaths(set) == { DestPath(set, f) : f \in DOMAIN templates[set] }

RenderedOk(h) == h.op \in {"webapp", "nginx"} /\ h.result = "ok"

\* C14: a call of copy_files_with_substitution that returns has left every
\* file of the destination that is not the destination of a template as it
\* was; and any later call for the same template set that returns, into
\* the same destination or into a fresh one, leaves each template's
\* destination with the contents the earlier call left there, so that a
\* second call into the destination of the first changes no file at all.
C14_RenderIdempotent ==
    \A i \in 1 .. Len(history) :
        RenderedOk(history[i]) =>
            /\ DOMAIN history[i].after = DOMAIN history[i].before \cup DestPaths(history[i].op)
            /\ \A p \in DOMAIN history[i].before \ DestPaths(history[i].op) :
                  history[i].after[p] = history[i].before[p]
            /\ \A j \in i + 1 .. Len(history) :
                  (RenderedOk(history[j]) /\ history[j].op = history[i].op) =>
                      /\ \A p \in DestPaths(history[i].op) :
                            history[j].after[p] = history[i].after[p]
                      /\ history[j].before = history[i].after =>
                            history[j].after = history[j].before

\* The app config was rendered twice into the same destination, which
\* held a file of no template and a Dockerfile of an earlier build; the
\* Dockerfile template has a placeholder.
C14_Witness ==
    /\ Len(history) = 2
    /\ RenderedOk(history[1]) /\ RenderedOk(history[2])
    /\ history[1].op = "webapp" /\ history[2].op = "webapp"
    /\ history[1].before = ( "Dockerfile" :> StaleFile ) @@ ( "notes.txt" :> StaleFile )
    /\ history[2].before = history[1].after
    /\ history[2].after["notes.txt"] = StaleFile
    /\ history[2].after["Dockerfile"] = << Line("text", "EXPOSE"), Line("text", "web") >>

(***************************************************************************)
(*                 PROPERTIES OF TWO BUILDS AT ONCE                        *)
(***************************************************************************)
\* Builder p got past the existence check of copytree.
Passed(p) == racers[p].pc \notin {"copytree", "mkdir_app"} /\ racers[p].result # "exit1"

\* C19: of two build(clean=False) started on an absent build directory at
\* most one gets past the existence check; every file in the build
\* directory was written by that one; a builder that ended with the
\* "exists already" exit wrote no file and made no directory but, at most,
\* the build directory itself; and when both have ended, one of them ended
\* with that exit.
C19_OneBuilderPasses ==
    /\ Cardinality({ p \in Builders : Passed(p) }) <= 1
    /\ \A p \in Builders :
          /\ ~Passed(p) => racers[p].wrote = {} /\ racers[p].made \subseteq {"."}
          /\ racers[p].result = "exit1" => racers[p].pc = "done" /\ ~Passed(p)
          /\ Passed(p) => DOMAIN bfiles = racers[p].wrote
    /\ (\A p \in Builders : ~Passed(p)) => bfiles = NoFiles
    /\ (\A p \in Builders : racers[p].pc = "done") =>
          \E p \in Builders :
              /\ racers[p].result = "exit1"
              /\ \A q \in Builders \ {p} : Passed(q)

\* Both have ended: "a" made the build directory and then lost to "b",
\* which built the whole artifact.
C19_Witness ==
    /\ racers["a"].pc = "done" /\ racers["a"].result = "exit1"
    /\ racers["a"].made = {"."} /\ racers["a"].wrote = {}
    /\ racers["b"].pc = "done" /\ racers["b"].result = "ok"
    /\ racers["b"].wrote = ArtifactPaths
    /\ DOMAIN bfiles = ArtifactPaths
====
